---------------------------- MODULE Spec2Model ----------------------------
(***************************************************************************)
(* Model of monitor_switcher.py: the KM-switch detector's polling loop,   *)
(* the monitor controller's switch_input, and the application callback    *)
(* that ties them together.  Two threads exist: the detector's worker     *)
(* thread ("worker") and the main thread that runs the tray icon ("ui").  *)
(***************************************************************************)
EXTENDS Integers, Sequences, FiniteSets, TLC

(* ------------------------------ bounds -------------------------------- *)
MaxButtons == 3      \* largest value the mouse-button metric takes
MaxTicks == 3        \* poll ticks the worker performs
MaxManual == 2       \* manual tray switches performed
MaxSaves == 1        \* configuration saves performed
MaxIndex == 1        \* largest monitor index used
AppTicks == 1        \* poll ticks the worker performs beside the tray thread
AppManual == 1       \* manual tray switches performed beside the worker

(* --------------------------- program constants ------------------------ *)
INPUT_SOURCES ==
  {"HDMI-1", "HDMI-2", "DisplayPort-1", "DisplayPort-2", "DVI-1", "DVI-2", "VGA-1"}

DefaultInterval == 2
ErrorInterval == 5

NoMonitor == -1      \* self.monitor is None
MetricsFail == -1    \* GetSystemMetrics raised

Threads == {"worker", "ui"}
Machines == {"home", "work"}

(* Input names a hand-edited config file may hold besides the defaults.   *)
UnknownInput == "USB-C"

DefaultConfig ==
  [home_machine_input |-> "HDMI-1", work_laptop_input |-> "HDMI-2",
   monitor_index |-> 0, check_interval |-> 2, last_active_machine |-> "home"]

ConfigFiles ==
  { DefaultConfig,
    [DefaultConfig EXCEPT !.work_laptop_input = UnknownInput],
    [DefaultConfig EXCEPT !.home_machine_input = "HDMI-2", !.monitor_index = MaxIndex],
    [DefaultConfig EXCEPT !.check_interval = 10] }

ComboValues == {"HDMI-1", "HDMI-2"}

SetOutcomes == {"ok", "VCPError", "Exception"}

VARIABLES
  running,            \* KMSwitchDetector.running
  last_device_count,  \* KMSwitchDetector.last_device_count
  last_state,         \* KMSwitchDetector.last_state
  current_count,      \* local of _monitor_loop, kept while the callback runs
  pc,                 \* position of each thread
  frame,              \* locals of the _on_km_switch / switch_input call of each thread
  config,             \* Config.data
  app_ctrl,           \* MonitorSwitcherApp.monitor_controller (object identity)
  controllers,        \* monitor_index and monitor of every MonitorController object
  icon,               \* MonitorSwitcherApp.icon is set
  hw_input,           \* input source each physical monitor shows
  last_success,       \* machine of the latest set-input command that succeeded
  lastCall,           \* the switch_input call that returned most recently
  wait,               \* duration of the worker's current sleep (0: not sleeping)
  fails,              \* consecutive failed ticks
  ticks,              \* ticks started
  events,             \* machines the detector passed to its callback, in order
  trace,              \* scores sampled so far, while they follow a scenario
  prev_score,         \* score of the latest sample (-1: none yet)
  probe,              \* outcomes of the OS queries of the latest sample
  note,               \* notification sent when the worker's latest callback ended
  stopped,            \* stop() has been called
  lateTicks,          \* samples taken by ticks after stop() was called
  manuals,            \* manual switches started
  saves,              \* configuration saves done
  observe             \* the history variables lastCall, trace, prev_score, probe
                      \* and note are recorded

dv == <<last_device_count, last_state, current_count>>
cv == <<config, app_ctrl, controllers, icon, hw_input, last_success>>
wg == <<wait, fails, ticks, events, trace, prev_score, probe, note, lateTicks>>
ug == <<stopped, manuals, saves, observe>>

vars == <<running, pc, frame, lastCall, dv, cv, wg, ug>>

(* ------------------------------ helpers ------------------------------- *)
Abs(x) == IF x < 0 THEN -x ELSE x

IsPrefix(s, t) == Len(s) <= Len(t) /\ \A i \in 1..Len(s) : s[i] = t[i]

Scenarios == { <<5, 5, 5>>, <<5, 4, 4, 5>>, <<5, 4, 3>>, <<4, 5>> }

OffTrace == <<-1>>

Record(tr, score) ==
  LET t == Append(tr, score)
  IN IF tr # OffTrace /\ \E s \in Scenarios : IsPrefix(t, s) THEN t ELSE OffTrace

(* a failed keyboard query gives 0 like a failed metric query *)
CountInputDevices_KeysFatal(metrics, keysOk) ==
  IF metrics = MetricsFail \/ ~keysOk THEN 0 ELSE metrics + 2

(* KMSwitchDetector._count_input_devices: metrics is the mouse-button     *)
(* metric (MetricsFail when the query raised), keysOk tells whether the   *)
(* keyboard-state queries all returned.                                   *)
CountInputDevices(metrics, keysOk) ==
  IF metrics = MetricsFail THEN 0
  ELSE metrics + (IF keysOk THEN 2 ELSE 0)

Scores == { CountInputDevices(m, k) : m \in MetricsFail..MaxButtons, k \in BOOLEAN }

(* a threshold of zero: an unchanged count is taken for a decrease *)
Candidate_NoThreshold(current, last) ==
  IF current > last THEN "home" ELSE "work"

(* the directions exchanged *)
Candidate_Swapped(current, last) ==
  IF Abs(current - last) >= 1
  THEN IF current > last THEN "work" ELSE "home"
  ELSE "none"

(* _monitor_loop, lines 184-190: the candidate state, "none" when        *)
(* the count did not change.                                              *)
Candidate(current, last) ==
  IF Abs(current - last) >= 1
  THEN IF current > last THEN "home" ELSE "work"
  ELSE "none"

(* the comparison with last_state left out *)
Emits_Always(cand, state) == cand # "none"

(* _monitor_loop, line 192: does the tick invoke the callback?            *)
Emits(cand, state) == cand # "none" /\ cand # state

(* the longer sleep only from the third consecutive failure on *)
SleepAfter_Third(failed, nfails) ==
  IF failed /\ nfails >= 3 THEN ErrorInterval ELSE DefaultInterval

(* _monitor_loop, lines 199 and 203: the sleep that ends a tick.          *)
SleepAfter(failed, nfails) == IF failed THEN ErrorInterval ELSE DefaultInterval

(* MonitorController._init_monitor: found is len(get_monitors()), or -1   *)
(* when get_monitors raised.                                              *)
InitMonitor(old, found, index) == IF found > index THEN index ELSE old

(* the call returns False after its reconnect attempt even when the       *)
(* attempt succeeded                                                      *)
SwitchInputEntry_GiveUp(handle, found, index, input_name) ==
  LET h == IF handle = NoMonitor THEN InitMonitor(handle, found, index) ELSE handle
  IN [monitor |-> h,
      attempts |-> IF handle = NoMonitor THEN 1 ELSE 0,
      result |-> IF handle = NoMonitor THEN "False"
                 ELSE IF input_name \notin INPUT_SOURCES THEN "False"
                 ELSE "go"]

(* the test of the input name left out *)
SwitchInputEntry_NoNameTest(handle, found, index, input_name) ==
  LET h == IF handle = NoMonitor THEN InitMonitor(handle, found, index) ELSE handle
  IN [monitor |-> h,
      attempts |-> IF handle = NoMonitor THEN 1 ELSE 0,
      result |-> IF h = NoMonitor THEN "False" ELSE "go"]

(* MonitorController.switch_input, lines 109-117: the handle after the    *)
(* reconnect attempt (if one is made), the number of reconnect attempts,  *)
(* and "go" to reach the set-input command, else the value returned.      *)
SwitchInputEntry(handle, found, index, input_name) ==
  LET h == IF handle = NoMonitor THEN InitMonitor(handle, found, index) ELSE handle
  IN [monitor |-> h,
      attempts |-> IF handle = NoMonitor THEN 1 ELSE 0,
      result |-> IF h = NoMonitor THEN "False"
                 ELSE IF input_name \notin INPUT_SOURCES THEN "False"
                 ELSE "go"]

(* a redundant set is reported as a failure *)
SetResult_RejectSame(outcome, alreadyOn) ==
  IF outcome = "ok" /\ ~alreadyOn THEN "True" ELSE "False"

(* only VCPError is caught *)
SetResult_OnlyVCP(outcome, alreadyOn) ==
  IF outcome = "ok" THEN "True"
  ELSE IF outcome = "VCPError" THEN "False"
  ELSE "raise"

(* MonitorController.switch_input, lines 119-130: the value returned for  *)
(* each outcome of the set-input command.                                 *)
SetResult(outcome, alreadyOn) == IF outcome = "ok" THEN "True" ELSE "False"

(* the stop signal is not read *)
Continue_Forever(run) == TRUE

(* _monitor_loop, line 179: the while test *)
Continue(run) == run

(* an exception in a tick ends the loop *)
AfterTick_Die(raised) == IF raised THEN "done" ELSE "sleep"

(* _monitor_loop, lines 199-203: where the worker goes when a tick ends,  *)
(* normally or with an exception                                          *)
AfterTick(raised) == "sleep"

(* the count is stored only when the switch succeeded *)
CountAfter_OnSuccess(raised, result, current, last) ==
  IF raised \/ result # "True" THEN last ELSE current

(* _monitor_loop, lines 195-197: last_device_count after the callback;    *)
(* the assignment is skipped when the callback raised, and the result of  *)
(* switch_input is not looked at.                                         *)
CountAfter(raised, result, current, last) == IF raised THEN last ELSE current

(* the assignment of last_state left to after the callback *)
CommitState_Deferred(cand, state) == state

(* _monitor_loop, line 194: last_state is assigned before the callback   *)
(* is invoked                                                             *)
CommitState(cand, state) == cand

(* the test of self.icon left out *)
Notification_NoGuard(iconSet, result) == IF result = "True" THEN "ok" ELSE "fail"

(* _on_km_switch, lines 357-369: the notification sent, "none" when       *)
(* self.icon is not set                                                   *)
Notification(iconSet, result) ==
  IF ~iconSet THEN "none"
  ELSE IF result = "True" THEN "ok" ELSE "fail"

(* a history variable takes its new value only while it is recorded *)
Rec(new, old) == IF observe THEN new ELSE old

(* no sample taken yet *)
NoProbe == [metrics |-> 0, keysOk |-> FALSE]

(* _on_km_switch, lines 349-352 *)
InputFor(machine, cfg) ==
  IF machine = "home" THEN cfg.home_machine_input ELSE cfg.work_laptop_input

NoFrame ==
  [machine |-> "none", input |-> "none", ctrl |-> 0, epoch |-> 0, calls |-> 0,
   had_monitor |-> FALSE, reconnects |-> 0, sets |-> 0, outcome |-> "none", already_on |-> FALSE,
   repeat |-> FALSE, after_fail |-> FALSE, result |-> "none"]

NewFrame(machine) ==
  [NoFrame EXCEPT !.machine = machine, !.input = InputFor(machine, config),
                  !.ctrl = app_ctrl, !.epoch = saves, !.result = "pending"]

NoCall == [ctrl |-> -1, input |-> "none", result |-> "none", connected |-> FALSE]

(* what a finished switch_input call leaves in lastCall *)
CallOf(f) ==
  [ctrl |-> f.ctrl, input |-> f.input, result |-> f.result,
   connected |-> (controllers[f.ctrl].monitor # NoMonitor)]

(* the controller is created for monitor 0 whatever index was saved *)
NewController_Zero(found, index) ==
  [monitor_index |-> 0, monitor |-> InitMonitor(NoMonitor, found, 0)]

(* MonitorController.__init__ *)
NewController(found, index) ==
  [monitor_index |-> index, monitor |-> InitMonitor(NoMonitor, found, index)]

NoController == [monitor_index |-> 0, monitor |-> NoMonitor]

(* ------------------------------- Init --------------------------------- *)
(* The state after MonitorSwitcherApp.__init__; obs tells whether the    *)
(* history variables are recorded                                         *)
InitWith(obs) ==
  /\ observe = obs
  /\ running = FALSE
  /\ last_device_count = 0
  /\ last_state = "home"
  /\ current_count = 0
  /\ pc = [t \in Threads |-> "new"]
  /\ frame = [t \in Threads |-> NoFrame]
  /\ config \in ConfigFiles
  /\ app_ctrl = 0
  /\ \E found \in -1..(MaxIndex + 1) :
       controllers = [c \in 0..MaxSaves |->
                        IF c = 0 THEN NewController(found, config.monitor_index)
                        ELSE NoController]
  /\ icon = FALSE
  /\ hw_input = [m \in 0..MaxIndex |-> "HDMI-1"]
  /\ last_success = "none"
  /\ lastCall = NoCall
  /\ wait = 0
  /\ fails = 0
  /\ ticks = 0
  /\ events = <<>>
  /\ trace = <<>>
  /\ prev_score = -1
  /\ probe = NoProbe
  /\ note = "none"
  /\ stopped = FALSE
  /\ lateTicks = 0
  /\ manuals = 0
  /\ saves = 0

Init == InitWith(TRUE)

(* --------------------------- main thread ------------------------------ *)
(* MonitorSwitcherApp.run, line 418: KMSwitchDetector.start *)
Start ==
  /\ pc["ui"] = "new"
  /\ running' = TRUE
  /\ pc' = [pc EXCEPT !["ui"] = "started", !["worker"] = "init"]
  /\ UNCHANGED <<frame, lastCall, dv, cv, wg, ug>>

(* MonitorSwitcherApp.run, lines 421-438: the tray icon is created and run *)
CreateIcon ==
  /\ pc["ui"] = "started"
  /\ icon' = TRUE
  /\ pc' = [pc EXCEPT !["ui"] = "menu"]
  /\ UNCHANGED <<running, frame, lastCall, dv, config, app_ctrl, controllers,
                 hw_input, last_success, wg, ug>>

(* _manual_switch_home / _manual_switch_work, entering _on_km_switch *)
ManualSwitchB(bound) ==
  /\ pc["ui"] = "menu"
  /\ manuals < bound
  /\ \E m \in Machines :
       frame' = [frame EXCEPT !["ui"] = NewFrame(m)]
  /\ pc' = [pc EXCEPT !["ui"] = "entry"]
  /\ manuals' = manuals + 1
  /\ UNCHANGED <<running, lastCall, dv, cv, wg, stopped, saves, observe>>

ManualSwitch == ManualSwitchB(MaxManual)

(* ConfigWindow._save followed by _show_config.on_save *)
ConfigSave ==
  /\ pc["ui"] = "menu"
  /\ saves < MaxSaves
  /\ \E h \in ComboValues \cup {config.home_machine_input},
        w \in ComboValues \cup {config.work_laptop_input},
        idx \in 0..MaxIndex,
        found \in -1..(MaxIndex + 1) :
       /\ config' = [config EXCEPT !.home_machine_input = h,
                                   !.work_laptop_input = w,
                                   !.monitor_index = idx]
       /\ app_ctrl' = app_ctrl + 1
       /\ controllers' = [controllers EXCEPT ![app_ctrl + 1] = NewController(found, idx)]
  /\ saves' = saves + 1
  /\ UNCHANGED <<running, pc, frame, lastCall, dv, icon, hw_input, last_success,
                 wg, stopped, manuals, observe>>

(* MonitorSwitcherApp._quit: KMSwitchDetector.stop, then icon.stop *)
Stop ==
  /\ pc["ui"] = "menu"
  /\ running' = FALSE
  /\ stopped' = TRUE
  /\ pc' = [pc EXCEPT !["ui"] = "quit"]
  /\ UNCHANGED <<frame, lastCall, dv, cv, wg, manuals, saves, observe>>

(* ---------------------- _on_km_switch / switch_input ------------------ *)
(* switch_input, lines 109-120 *)
SwitchEntry(t) ==
  /\ pc[t] = "entry"
  /\ LET f == frame[t]
         c == controllers[f.ctrl]
     IN \E found \in -1..(MaxIndex + 1) :
          LET e == SwitchInputEntry(c.monitor, found, c.monitor_index, f.input)
          IN /\ controllers' = [controllers EXCEPT ![f.ctrl].monitor = e.monitor]
             /\ frame' = [frame EXCEPT ![t] =
                            [f EXCEPT !.calls = f.calls + 1,
                                      !.had_monitor = (c.monitor # NoMonitor),
                                      !.reconnects = e.attempts,
                                      !.repeat = /\ lastCall.ctrl = f.ctrl
                                                 /\ lastCall.input = f.input
                                                 /\ lastCall.result = "True",
                                      !.after_fail = /\ lastCall.ctrl = f.ctrl
                                                     /\ lastCall.result = "False"
                                                     /\ ~lastCall.connected,
                                      !.result = IF e.result = "go" THEN "pending"
                                                 ELSE e.result]]
             /\ pc' = [pc EXCEPT ![t] = IF e.result = "go" THEN "with" ELSE "finish"]
  /\ UNCHANGED <<running, lastCall, dv, config, app_ctrl, icon, hw_input, last_success,
                 wg, ug>>

(* switch_input, lines 121-130: the scoped acquisition of the monitor and *)
(* the set-input command in it                                            *)
SetInput(t) ==
  /\ pc[t] = "with"
  /\ LET f == frame[t]
         h == controllers[f.ctrl].monitor
     IN \E outcome \in SetOutcomes :
          /\ frame' = [frame EXCEPT ![t] =
                         [f EXCEPT !.sets = f.sets + 1,
                                   !.outcome = outcome,
                                   !.already_on = (hw_input[h] = f.input),
                                   !.result = SetResult(outcome, hw_input[h] = f.input)]]
          /\ hw_input' = IF outcome = "ok" THEN [hw_input EXCEPT ![h] = f.input]
                         ELSE hw_input
          /\ last_success' = IF outcome = "ok" THEN f.machine ELSE last_success
  /\ pc' = [pc EXCEPT ![t] = "finish"]
  /\ UNCHANGED <<running, lastCall, dv, config, app_ctrl, controllers, icon, wg, ug>>

(* _on_km_switch, lines 357-358: the preference is saved on success *)
FinishConfig(t) ==
  IF frame[t].result = "True"
  THEN [config EXCEPT !.last_active_machine = frame[t].machine]
  ELSE config

(* _on_km_switch ends with an exception when switch_input raised or       *)
(* icon.notify (lines 360, 366) raised                                    *)
Raised(t, notifyRaises) ==
  \/ frame[t].result = "raise"
  \/ icon /\ notifyRaises

(* _on_km_switch, lines 357-369, then back to the tray menu *)
ManualFinish ==
  /\ pc["ui"] = "finish"
  /\ config' = FinishConfig("ui")
  /\ lastCall' = Rec(CallOf(frame["ui"]), lastCall)
  /\ frame' = [frame EXCEPT !["ui"] = NoFrame]
  /\ pc' = [pc EXCEPT !["ui"] = "menu"]
  /\ UNCHANGED <<running, dv, app_ctrl, controllers, icon, hw_input, last_success,
                 wg, ug>>

(* --------------------------- worker thread ---------------------------- *)
(* _monitor_loop, line 177 *)
InitialSample ==
  /\ pc["worker"] = "init"
  /\ \E m \in MetricsFail..MaxButtons, k \in BOOLEAN :
       /\ last_device_count' = CountInputDevices(m, k)
       /\ prev_score' = Rec(CountInputDevices(m, k), prev_score)
       /\ probe' = Rec([metrics |-> m, keysOk |-> k], probe)
       /\ trace' = Rec(Record(trace, CountInputDevices(m, k)), trace)
  /\ pc' = [pc EXCEPT !["worker"] = "loop"]
  /\ UNCHANGED <<running, frame, lastCall, last_state, current_count, cv,
                 wait, fails, ticks, events, note, lateTicks, ug>>

(* _monitor_loop, line 179: the while test, reached at first entry and    *)
(* after each sleep                                                        *)
LoopTestB(bound) ==
  /\ pc["worker"] \in {"loop", "sleep"}
  /\ Continue(running) => ticks < bound
  /\ pc' = [pc EXCEPT !["worker"] = IF Continue(running) THEN "tick" ELSE "done"]
  /\ ticks' = IF Continue(running) THEN ticks + 1 ELSE ticks
  /\ wait' = 0
  /\ UNCHANGED <<running, frame, lastCall, dv, cv,
                 fails, events, trace, prev_score, probe, note, lateTicks, ug>>

LoopTest == LoopTestB(MaxTicks)

(* _monitor_loop, lines 181-199: one tick up to the callback invocation,  *)
(* or to the sleep when the callback is not invoked                       *)
Tick ==
  /\ pc["worker"] = "tick"
  /\ \E m \in MetricsFail..MaxButtons, k \in BOOLEAN :
       LET c == CountInputDevices(m, k)
           cand == Candidate(c, last_device_count)
       IN /\ prev_score' = Rec(c, prev_score)
          /\ probe' = Rec([metrics |-> m, keysOk |-> k], probe)
          /\ trace' = Rec(Record(trace, c), trace)
          /\ IF Emits(cand, last_state)
             THEN /\ last_state' = CommitState(cand, last_state)
                  /\ current_count' = c
                  /\ events' = Append(events, cand)
                  /\ frame' = [frame EXCEPT !["worker"] = NewFrame(cand)]
                  /\ pc' = [pc EXCEPT !["worker"] = "entry"]
                  /\ UNCHANGED <<last_device_count, wait, fails>>
             ELSE /\ last_device_count' = IF cand # "none" THEN c ELSE last_device_count
                  /\ current_count' = 0
                  /\ wait' = SleepAfter(FALSE, 0)
                  /\ fails' = 0
                  /\ pc' = [pc EXCEPT !["worker"] = AfterTick(FALSE)]
                  /\ UNCHANGED <<last_state, events, frame>>
  /\ lateTicks' = IF stopped THEN lateTicks + 1 ELSE lateTicks
  /\ UNCHANGED <<running, lastCall, cv, ticks, note, ug>>

(* the callback ends (_on_km_switch, lines 357-369); _monitor_loop,       *)
(* lines 197-203                                                          *)
TickFinish ==
  /\ pc["worker"] = "finish"
  /\ config' = FinishConfig("worker")
  /\ lastCall' = Rec(CallOf(frame["worker"]), lastCall)
  /\ note' = Rec(Notification(icon, frame["worker"].result), note)
  /\ \E notifyRaises \in BOOLEAN :
       /\ last_device_count' = CountAfter(Raised("worker", notifyRaises),
                                           frame["worker"].result,
                                           current_count, last_device_count)
       /\ IF Raised("worker", notifyRaises)
          THEN /\ wait' = SleepAfter(TRUE, fails + 1)
               /\ fails' = fails + 1
               /\ pc' = [pc EXCEPT !["worker"] = AfterTick(TRUE)]
          ELSE /\ wait' = SleepAfter(FALSE, 0)
               /\ fails' = 0
               /\ pc' = [pc EXCEPT !["worker"] = AfterTick(FALSE)]
  /\ frame' = [frame EXCEPT !["worker"] = NoFrame]
  /\ current_count' = 0
  /\ UNCHANGED <<running, last_state, app_ctrl, controllers, icon, hw_input,
                 last_success, ticks, events, trace, prev_score, probe, lateTicks, ug>>

(* --------------------------- specifications --------------------------- *)
WorkerNext ==
  \/ InitialSample
  \/ LoopTest
  \/ Tick
  \/ SwitchEntry("worker")
  \/ SetInput("worker")
  \/ TickFinish

ManualNext ==
  \/ ManualSwitch
  \/ SwitchEntry("ui")
  \/ SetInput("ui")
  \/ ManualFinish

(* the whole application *)
Next ==
  \/ Start
  \/ CreateIcon
  \/ ConfigSave
  \/ Stop
  \/ ManualNext
  \/ WorkerNext

Spec == Init /\ [][Next]_vars

(* the detector and its callback, with no tray interaction but Quit *)
NextDetector ==
  \/ Start
  \/ CreateIcon
  \/ Stop
  \/ WorkerNext

SpecDetector == Init /\ [][NextDetector]_vars

(* the worker thread is scheduled as long as it has a step to take *)
SpecDetectorFair == SpecDetector /\ WF_vars(WorkerNext)

(* the tray thread alone: manual switches and configuration saves *)
NextManual ==
  \/ Start
  \/ CreateIcon
  \/ ConfigSave
  \/ Stop
  \/ ManualNext

SpecManual == Init /\ [][NextManual]_vars

(* the worker and the tray thread side by side, for a few operations *)
AppLoopTest == LoopTestB(AppTicks)

AppManualSwitch == ManualSwitchB(AppManual)

NextApp ==
  \/ Start
  \/ CreateIcon
  \/ ConfigSave
  \/ Stop
  \/ AppManualSwitch
  \/ SwitchEntry("ui")
  \/ SetInput("ui")
  \/ ManualFinish
  \/ InitialSample
  \/ AppLoopTest
  \/ Tick
  \/ SwitchEntry("worker")
  \/ SetInput("worker")
  \/ TickFinish

InitApp == InitWith(FALSE)

SpecApp == InitApp /\ [][NextApp]_vars

(* the worker while the configuration is saved from the tray thread *)
NextSave ==
  \/ Start
  \/ CreateIcon
  \/ ConfigSave
  \/ InitialSample
  \/ AppLoopTest
  \/ Tick
  \/ SwitchEntry("worker")
  \/ SetInput("worker")
  \/ TickFinish

SpecSave == InitApp /\ [][NextSave]_vars

TypeOK ==
  /\ running \in BOOLEAN
  /\ last_device_count \in Scores
  /\ last_state \in Machines
  /\ wait \in {0, DefaultInterval, ErrorInterval}
  /\ \A t \in Threads : frame[t].result \in {"none", "pending", "True", "False"}

(* ------------------------------ properties ---------------------------- *)
(* a step of the worker that takes the sample of a tick; the score it     *)
(* sampled is prev_score'                                                  *)
TickStep == pc["worker"] = "tick" /\ pc'["worker"] # "tick"

(* switch_input of thread t has returned (or raised) and _on_km_switch    *)
(* has not yet acted on the result                                        *)
AtReturn(t) == pc[t] = "finish"

(* C1: the callback is invoked on a tick only if the candidate of that    *)
(* tick differs from last_state as it was before the tick; the emitted    *)
(* events alternate work, home, work, ... beginning with work; a tick     *)
(* whose score equals the previous score never emits.                     *)
C1_EmitOnlyOnChange ==
  /\ [][events' # events =>
          /\ TickStep
          /\ prev_score' # last_device_count
          /\ LET cand == IF prev_score' > last_device_count THEN "home" ELSE "work"
             IN /\ cand # last_state
                /\ events' = Append(events, cand)]_vars
  /\ [][(TickStep /\ prev_score' = prev_score) => events' = events]_vars
  /\ [](\A i \in 1..Len(events) : events[i] = IF i % 2 = 1 THEN "work" ELSE "home")

C1_Witness == Len(events) = 3 /\ events[3] = "work"

(* C2: on one tick, tracked state home and a score below the last score   *)
(* (last_device_count) emit exactly one work event and make the state     *)
(* work; tracked state work and a score above the last score emit exactly *)
(* one home event and make the state home; scores 5,4,4,5 from home emit  *)
(* exactly work, home.                                                    *)
C2_TransitionOnTick ==
  /\ [][TickStep =>
          /\ (last_state = "home" /\ prev_score' < last_device_count)
               => (events' = Append(events, "work") /\ last_state' = "work")
          /\ (last_state = "work" /\ prev_score' > last_device_count)
               => (events' = Append(events, "home") /\ last_state' = "home")]_vars
  /\ [](trace = <<5, 4, 4, 5>> => events = <<"work", "home">>)

C2_Witness == trace = <<5, 4, 4, 5>> /\ events = <<"work", "home">> /\ last_state = "home"

(* C3: in a run of decreases that starts in state home only the first     *)
(* decrease emits work: a decrease while the tracked state is work emits  *)
(* nothing and leaves the state work (scores 5,4,3 emit work once); an    *)
(* increase while the tracked state is home emits nothing and leaves the  *)
(* state home.                                                            *)
C3_NoReEmitInRun ==
  /\ [][TickStep =>
          /\ (last_state = "work" /\ (prev_score' < last_device_count \/ prev_score' < prev_score))
               => (events' = events /\ last_state' = "work")
          /\ (last_state = "home" /\ (prev_score' > last_device_count \/ prev_score' > prev_score))
               => (events' = events /\ last_state' = "home")]_vars
  /\ [](trace = <<5, 4, 3>> => (events = <<"work">> /\ last_state = "work"))

C3_Witness ==
  /\ trace = <<5, 4, 3>>
  /\ events = <<"work">>
  /\ last_device_count = 3
  /\ pc["worker"] = "sleep"

(* C4: a switch_input call made with a connected handle and a known input *)
(* whose set-input command does not fail returns True and leaves the      *)
(* handle connected, also when the previous call on the same controller   *)
(* set the same input and the monitor is already on it.                   *)
C4_RepeatedSwitchSucceeds ==
  \A t \in Threads :
    (AtReturn(t) /\ frame[t].had_monitor /\ frame[t].input \in INPUT_SOURCES
       /\ frame[t].outcome = "ok")
      => /\ frame[t].result = "True"
         /\ controllers[frame[t].ctrl].monitor # NoMonitor

C4_Witness ==
  \E t \in Threads :
    /\ AtReturn(t)
    /\ frame[t].repeat
    /\ frame[t].already_on
    /\ frame[t].had_monitor
    /\ frame[t].result = "True"

(* C5 as claimed: a call entered with no handle makes exactly one         *)
(* reconnect attempt; if the handle is still absent it returns False,     *)
(* does not raise and issues no set-input command; if the reconnect       *)
(* succeeded it issues the set-input command in the same call.            *)
C5_Original ==
  \A t \in Threads :
    (AtReturn(t) /\ ~frame[t].had_monitor)
      => /\ frame[t].reconnects = 1
         /\ controllers[frame[t].ctrl].monitor = NoMonitor
              => (frame[t].result = "False" /\ frame[t].sets = 0)
         /\ controllers[frame[t].ctrl].monitor # NoMonitor
              => frame[t].sets = 1

(* C5 amended: as claimed, but a call whose reconnect succeeds issues the *)
(* set-input command only if the input name is a supported one; with an   *)
(* unsupported name it returns False and issues no command.  A call       *)
(* entered with a handle makes no reconnect attempt.                      *)
C5_ReconnectEachCall ==
  \A t \in Threads :
    AtReturn(t) =>
      IF frame[t].had_monitor THEN frame[t].reconnects = 0
      ELSE /\ frame[t].reconnects = 1
           /\ frame[t].result \in {"True", "False"}
           /\ controllers[frame[t].ctrl].monitor = NoMonitor
                => (frame[t].result = "False" /\ frame[t].sets = 0)
           /\ (controllers[frame[t].ctrl].monitor # NoMonitor
                 /\ frame[t].input \in INPUT_SOURCES)
                => frame[t].sets = 1
           /\ (controllers[frame[t].ctrl].monitor # NoMonitor
                 /\ frame[t].input \notin INPUT_SOURCES)
                => (frame[t].result = "False" /\ frame[t].sets = 0)

(* a call that follows a failed reconnect on the same controller          *)
(* reconnects and issues the command                                      *)
C5_Witness ==
  \E t \in Threads :
    /\ AtReturn(t)
    /\ frame[t].after_fail
    /\ ~frame[t].had_monitor
    /\ frame[t].reconnects = 1
    /\ frame[t].sets = 1

(* C6: with an input name that is not in INPUT_SOURCES switch_input       *)
(* returns False, issues no set-input command and does not raise, and the *)
(* worker goes on to its sleep and the loop test: it is done only after   *)
(* stop().                                                                *)
C6_UnknownInputFails ==
  /\ [](\A t \in Threads :
          (AtReturn(t) /\ frame[t].input \notin INPUT_SOURCES)
            => (frame[t].result = "False" /\ frame[t].sets = 0))
  /\ [][(AtReturn("worker") /\ frame["worker"].input \notin INPUT_SOURCES
           /\ pc'["worker"] # "finish")
          => (pc'["worker"] = "sleep" /\ running' = running)]_vars
  /\ [](pc["worker"] = "done" => ~running)

C6_Witness ==
  /\ lastCall.input = UnknownInput
  /\ lastCall.connected
  /\ lastCall.result = "False"
  /\ pc["worker"] = "tick"
  /\ running

(* C7: switch_input never raises; when the set-input command fails with   *)
(* VCPError or with any other error it returns False and the handle is    *)
(* kept; it returns True only when the command completed without error.   *)
C7_SwitchNeverRaises ==
  \A t \in Threads :
    AtReturn(t) =>
      /\ frame[t].result \in {"True", "False"}
      /\ frame[t].outcome \in {"VCPError", "Exception"}
           => /\ frame[t].result = "False"
              /\ controllers[frame[t].ctrl].monitor # NoMonitor
      /\ frame[t].result = "True" => (frame[t].outcome = "ok" /\ frame[t].sets = 1)

C7_Witness ==
  \E t \in Threads :
    AtReturn(t) /\ frame[t].outcome = "Exception" /\ frame[t].result = "False"

(* C8: a tick that ends with an error leads to the sleep and a further    *)
(* loop test, never to the end of the loop; the worker is done only when  *)
(* running is False after stop().                                         *)
C8_LoopSurvivesErrors ==
  /\ [][(pc["worker"] \in {"tick", "entry", "with", "finish"})
          => pc'["worker"] # "done"]_vars
  /\ [](pc["worker"] = "done" => (stopped /\ ~running))

C8_Witness == fails >= 1 /\ pc["worker"] = "tick" /\ running

(* C9 as claimed: the wait is the longer interval only once three         *)
(* consecutive ticks have failed.                                         *)
C9_Original == wait = ErrorInterval => fails >= 3

(* C9 amended: the wait after a tick is the longer interval (5 seconds)   *)
(* whenever that tick failed, from the first failure on, and the default  *)
(* interval (2 seconds) whenever that tick succeeded.                     *)
C9_BackoffOnEveryFailure ==
  pc["worker"] = "sleep" =>
    wait = IF fails >= 1 THEN ErrorInterval ELSE DefaultInterval

C9_Witness == pc["worker"] = "sleep" /\ fails = 1 /\ wait = ErrorInterval

(* C10: once stop() has been called the worker eventually is done; it     *)
(* takes at most one more sample (the tick in progress) and a done worker *)
(* samples and emits nothing.                                             *)
C10_StopTerminates ==
  /\ stopped ~> pc["worker"] = "done"
  /\ [](lateTicks <= 1)
  /\ [][pc["worker"] = "done"
          => (pc'["worker"] = "done" /\ events' = events /\ prev_score' = prev_score)]_vars

C10_Witness == stopped /\ pc["worker"] = "done" /\ lateTicks = 1

(* the worker's switch_input call is between its start and the moment    *)
(* _on_km_switch continues after it                                       *)
InCall(t) == pc[t] \in {"entry", "with", "finish"}

(* the step on which the callback of the worker's tick ends *)
CallbackEnds == pc["worker"] = "finish" /\ pc'["worker"] # "finish"

(* C12 as claimed: the score is never negative, and it is 0 whenever the  *)
(* mouse-button metric query or a keyboard-state query of the sample      *)
(* failed.                                                                *)
C12_Original ==
  prev_score # -1 =>
    /\ prev_score >= 0
    /\ (probe.metrics = MetricsFail \/ ~probe.keysOk) => prev_score = 0

(* C12 amended: the score is never negative; it is 0 when the             *)
(* mouse-button metric query failed; when only a keyboard-state query     *)
(* failed it is the mouse-button metric without the 2 added for a         *)
(* keyboard; when no query failed it is the metric plus 2.                *)
C12_ScoreOfSample ==
  prev_score # -1 =>
    /\ prev_score >= 0
    /\ probe.metrics = MetricsFail => prev_score = 0
    /\ (probe.metrics # MetricsFail /\ ~probe.keysOk) => prev_score = probe.metrics
    /\ (probe.metrics # MetricsFail /\ probe.keysOk) => prev_score = probe.metrics + 2

C12_Witness ==
  /\ pc["worker"] = "sleep"
  /\ ~probe.keysOk
  /\ probe.metrics = MaxButtons
  /\ prev_score = MaxButtons

(* C13 as claimed: every event the worker emits starts one switch_input   *)
(* call with the input configured for the machine, and when the callback  *)
(* ends exactly one notification has been sent, the failure wording if    *)
(* and only if switch_input returned False.                               *)
C13_Original ==
  /\ [][events' # events =>
          /\ pc'["worker"] = "entry"
          /\ frame'["worker"].machine = events'[Len(events')]
          /\ frame'["worker"].input = InputFor(frame'["worker"].machine, config)]_vars
  /\ [][CallbackEnds =>
          /\ frame["worker"].calls = 1
          /\ note' \in {"ok", "fail"}
          /\ note' = "fail" <=> frame["worker"].result = "False"]_vars

(* C13 amended: as claimed, but the notification is sent only when the    *)
(* tray icon has been created; a callback that ends before that sends no  *)
(* notification, whatever switch_input returned.                          *)
C13_EventSwitchesAndNotifies ==
  /\ [][events' # events =>
          /\ pc'["worker"] = "entry"
          /\ frame'["worker"].machine = events'[Len(events')]
          /\ frame'["worker"].input = InputFor(frame'["worker"].machine, config)]_vars
  /\ [][CallbackEnds =>
          /\ frame["worker"].calls = 1
          /\ frame["worker"].result \in {"True", "False"}
          /\ icon => /\ note' \in {"ok", "fail"}
                     /\ note' = "fail" <=> frame["worker"].result = "False"
          /\ ~icon => note' = "none"]_vars

C13_Witness ==
  /\ ~icon
  /\ note = "none"
  /\ lastCall.result = "True"
  /\ events = <<"work">>
  /\ pc["worker"] = "sleep"

(* C15 as claimed: the wait that follows a successful tick is the         *)
(* check_interval held by the configuration.                              *)
C15_IntervalFromConfig ==
  (pc["worker"] = "sleep" /\ fails = 0) => wait = config.check_interval

(* C16 as claimed: when a tick has ended, last_device_count is the score  *)
(* sampled on that tick.                                                  *)
C16_CountFollowsSample ==
  pc["worker"] = "sleep" => last_device_count = prev_score

(* C18: last_state is the emitted machine from the moment the callback is *)
(* invoked and all the while it runs; the end of the callback leaves      *)
(* last_state as it is, also when switch_input returned False; the worker *)
(* never emits the machine that last_state holds, so two events for the   *)
(* same machine have an event for the other machine between them.         *)
C18_CommitBeforeCallback ==
  /\ [](InCall("worker") => last_state = frame["worker"].machine)
  /\ [][CallbackEnds => last_state' = last_state]_vars
  /\ [][events' # events =>
          /\ events' = Append(events, last_state')
          /\ last_state' # last_state]_vars
  /\ [](\A i \in 1..(Len(events) - 1) : events[i] # events[i + 1])
  /\ [](Len(events) > 0 => last_state = events[Len(events)])

(* a failed switch to work, then a further decrease that emits nothing *)
C18_Witness ==
  /\ events = <<"work">>
  /\ lastCall.result = "False"
  /\ last_state = "work"
  /\ ticks = 2
  /\ trace = <<5, 4, 3>>
  /\ pc["worker"] = "sleep"

(* C20 as claimed: in state home with the previous sample above 0, a tick *)
(* whose sample fails (score 0) emits work and starts a switch to the     *)
(* work input; in state work with the previous sample 0, a tick whose     *)
(* sample is above 0 emits home.                                          *)
C20_FailedSampleIsZero ==
  [][TickStep =>
       /\ (last_state = "home" /\ prev_score > 0 /\ probe'.metrics = MetricsFail)
            => /\ prev_score' = 0
               /\ events' = Append(events, "work")
               /\ frame'["worker"].input = config.work_laptop_input
       /\ (last_state = "work" /\ prev_score = 0 /\ prev_score' > 0)
            => events' = Append(events, "home")]_vars

(* C11 as claimed: the worker and the tray thread are never both inside  *)
(* the scoped acquisition of the monitor, and while the worker is inside  *)
(* a switch_input call the controller it uses is still the application's  *)
(* monitor_controller.                                                    *)
C11_OneThreadAtATime ==
  /\ ~(pc["worker"] = "with" /\ pc["ui"] = "with")
  /\ pc["worker"] \in {"entry", "with"} => frame["worker"].ctrl = app_ctrl

(* C14: a switch that starts reads the mapping and the controller the     *)
(* latest save left, and as long as no further save is made the input it  *)
(* uses is the configured one and its controller is the application's;    *)
(* that controller was created with the saved monitor_index, and the      *)
(* handle it holds, if it holds one, is the monitor of that index.        *)
C14_SwitchAfterSaveUsesNewConfig ==
  /\ [][\A t \in Threads :
          (pc[t] # "entry" /\ pc'[t] = "entry")
            => /\ frame'[t].epoch = saves
               /\ frame'[t].input = InputFor(frame'[t].machine, config)
               /\ frame'[t].ctrl = app_ctrl]_vars
  /\ [](\A t \in Threads :
          (InCall(t) /\ frame[t].epoch = saves)
            => /\ frame[t].input = InputFor(frame[t].machine, config)
               /\ frame[t].ctrl = app_ctrl)
  /\ [](/\ controllers[app_ctrl].monitor_index = config.monitor_index
        /\ controllers[app_ctrl].monitor \in {NoMonitor, config.monitor_index})

(* the worker's switch to work after a save that changed the work input   *)
(* and the monitor index                                                  *)
C14_Witness ==
  /\ running
  /\ saves = 1
  /\ controllers[0].monitor_index = 0
  /\ config.monitor_index = MaxIndex
  /\ config.work_laptop_input = "HDMI-1"
  /\ pc["worker"] = "finish"
  /\ frame["worker"].epoch = 1
  /\ frame["worker"].machine = "work"
  /\ frame["worker"].input = "HDMI-1"
  /\ frame["worker"].ctrl = 1
  /\ frame["worker"].result = "True"
  /\ controllers[1].monitor = MaxIndex

(* C17: last_device_count and last_state change only on a step of the     *)
(* worker loop that takes a sample or ends the callback of a tick; steps  *)
(* of the tray thread (manual switches, saves) and the worker's steps     *)
(* inside switch_input leave both unchanged; when the callback ends,      *)
(* last_state is kept and last_device_count becomes the tick's count      *)
(* unless the callback raised, whatever switch_input returned.            *)
C17_DetectorStateOnlyByTick ==
  /\ [][(last_device_count' # last_device_count \/ last_state' # last_state)
          => /\ pc["worker"] \in {"init", "tick", "finish"}
             /\ pc'["worker"] # pc["worker"]
             /\ pc'["ui"] = pc["ui"]
             /\ saves' = saves]_vars
  /\ [][(pc'["ui"] # pc["ui"] \/ saves' # saves \/ manuals' # manuals)
          => (last_device_count' = last_device_count /\ last_state' = last_state)]_vars
  /\ [][(pc["worker"] \in {"entry", "with"} /\ pc'["worker"] # pc["worker"])
          => (last_device_count' = last_device_count /\ last_state' = last_state)]_vars
  /\ [][CallbackEnds =>
          /\ last_state' = last_state
          /\ last_device_count' = IF fails' > fails THEN last_device_count
                                  ELSE current_count]_vars

(* a manual switch and a save have been made, the worker's switch to work *)
(* has failed and its callback ended without raising                      *)
C17_Witness ==
  /\ manuals = 1
  /\ saves = 1
  /\ pc["ui"] = "menu"
  /\ pc["worker"] = "sleep"
  /\ fails = 0
  /\ events = <<"work">>
  /\ last_state = "work"
  /\ last_success = "none"

(* C19 as claimed: when no switch is in progress, the persisted           *)
(* last_active_machine is the machine of the set-input command that       *)
(* succeeded most recently.                                               *)
C19_LastActiveIsLastSuccess ==
  ((\A t \in Threads : ~InCall(t)) /\ last_success # "none")
    => config.last_active_machine = last_success

=============================================================================
